---------------------------- MODULE Spec2Model ----------------------------
(***************************************************************************)
(* NewsSpY (yuina368/Pyinance): the article store, the batch pipeline and  *)
(* the daily-score aggregation, as state machines over the SQLite tables   *)
(* `articles` and `scores`.                                                *)
(*                                                                         *)
(* Encodings.  Companies are their ids 1..NumCompanies.  A source_url is   *)
(* a number: 0 is the blank string "", k > 0 a non-empty URL.  A title is  *)
(* a number.  A published_at is [h, tz]: the hour on the local clock and   *)
(* whether the ISO string is naive or carries the UTC suffix "Z".  A       *)
(* nullable column is <<>> (NULL) or <<v>>.  A sentiment score is in       *)
(* tenths (8 is 0.8).  A REAL the code computes is an exact rational       *)
(* [n, d] in lowest terms with d > 0.                                      *)
(***************************************************************************)
EXTENDS Integers, Sequences, FiniteSets

\* ---------------------------------------------------------------- bounds
NumCompanies == 2
MaxUrl == 2
MaxTitle == 1
MaxCalls == 3
MaxArticles == 2
MaxRuns == 2
NumRunners == 2
MaxFetch == 1
NumPoolCompanies == 4
NumPoolArticles == 6
MaxHits == 2
MaxApiArticles == 1

\* ---------------------------------------------------- program constants
HoursPerDay == 24
max_retries == 3
retry_delay_ms == 100
fetch_max_workers == 3
DecayPerHourTenths == 1
analyze_max_retries == 5
analyze_retry_delay_ms == 50
analyze_max_workers == 5
SelectLimit == 1000

Companies == 1..NumCompanies
Urls == 0..MaxUrl
Titles == 1..MaxTitle
BlankUrl == 0
\* The hours articles are published at and aggregation runs take place at:
\* hour 19 is on day 0, the others on day 1; 24 to 29 is 5 hours, 24 to 34 is
\* 10, 24 to 39 is 15.
PubHours == {19, 24, 29}
NowHours == {24, 29, 34, 39}
TimeZones == {"naive", "utc"}
NULL == <<>>
SentimentValues == {8, 4, -4}
StoreWorkers == 1..fetch_max_workers

VARIABLES
    articles,   \* the articles table: a sequence of rows, a row's id its index
    scores,     \* the scores table: a set of rows
    dblock,     \* the connection holding the database's write lock, 0: none
    wk,         \* per fetch worker thread: its add_article call in progress
    ncalls,     \* add_article calls started
    hist,       \* per source_url: calls returned, calls that returned True
    phase,      \* the batch run's position in run()
    task,       \* per company: the state of its fetch_company_articles future
    fetched,    \* per company: the articles get_articles returned, not yet stored
    collected,  \* the futures whose result() the main thread has taken
    counters,   \* articles_fetched, articles_added
    atask,      \* per selected article id: the state of its analyze_article future
    analyzed,   \* analyzed_count
    clock,      \* the wall clock, in hours
    runner,     \* per aggregation process: its run in progress
    nruns,      \* aggregation runs started
    runInfo,    \* per run started: what it was asked and what it wrote
    news_sentiments, \* the news_sentiments table: a set of rows
    companies,  \* the companies table: the ids registered
    analyzer,   \* the SentimentAnalyzer.analyze call under way
    fetcher,    \* the NewsAPIFetcher.get_articles call under way
    request     \* the API request under way and its response

storeVars == <<dblock, wk, ncalls, hist>>
pipeVars == <<phase, task, fetched, collected, counters, atask, analyzed>>
aggVars == <<clock, runner, nruns, runInfo>>
svcVars == <<analyzer, fetcher, request>>
vars == <<articles, scores, news_sentiments, companies, storeVars, pipeVars, aggVars, svcVars>>

\* ------------------------------------------------------------ the store

DateOf(h) == h \div HoursPerDay

ArticleRow(id, company_id, title, source_url, published_at, sentiment_score) ==
    [id |-> id, company_id |-> company_id, title |-> title,
     source_url |-> source_url, published_at |-> published_at,
     sentiment_score |-> sentiment_score]

\* articles.source_url is UNIQUE: an INSERT of a value some row holds fails
\* with IntegrityError ("" is a value like any other).
UniqueViolation(tbl, source_url) ==
    \E i \in 1..Len(tbl) : tbl[i].source_url = source_url

RowsWithUrl(tbl, source_url) ==
    Cardinality({i \in 1..Len(tbl) : tbl[i].source_url = source_url})

\* The INSERT statement of add_article run by connection w while `holder`
\* holds the write lock: the statement's outcome and the table it leaves for
\* the commit.  The lock is taken before the constraint is checked.
InsertNoUnique(tbl, holder, w, row) ==
    IF holder # 0 /\ holder # w THEN [outcome |-> "locked", tbl |-> tbl]
    ELSE [outcome |-> "ok", tbl |-> Append(tbl, [row EXCEPT !.id = Len(tbl) + 1])]

InsertOrReplace(tbl, holder, w, row) ==
    IF holder # 0 /\ holder # w THEN [outcome |-> "locked", tbl |-> tbl]
    ELSE IF UniqueViolation(tbl, row.source_url)
    THEN [outcome |-> "ok",
          tbl |-> [i \in 1..Len(tbl) |->
                     IF tbl[i].source_url = row.source_url
                     THEN [row EXCEPT !.id = i] ELSE tbl[i]]]
    ELSE [outcome |-> "ok", tbl |-> Append(tbl, [row EXCEPT !.id = Len(tbl) + 1])]

InsertNoLock(tbl, holder, w, row) ==
    IF UniqueViolation(tbl, row.source_url)
    THEN [outcome |-> "integrity", tbl |-> tbl]
    ELSE [outcome |-> "ok", tbl |-> Append(tbl, [row EXCEPT !.id = Len(tbl) + 1])]

InsertArticle(tbl, holder, w, row) ==
    IF holder # 0 /\ holder # w THEN [outcome |-> "locked", tbl |-> tbl]
    ELSE IF UniqueViolation(tbl, row.source_url)
    THEN [outcome |-> "integrity", tbl |-> tbl]
    ELSE [outcome |-> "ok", tbl |-> Append(tbl, [row EXCEPT !.id = Len(tbl) + 1])]

IdleCall ==
    [pc |-> "idle", company_id |-> 0, title |-> 0, source_url |-> 0,
     published_at |-> [h |-> 0, tz |-> "naive"], attempt |-> 0,
     slept |-> <<>>, result |-> FALSE, reason |-> "none"]

StoreInit ==
    /\ dblock = 0
    /\ wk = [w \in StoreWorkers |-> IdleCall]
    /\ ncalls = 0
    /\ hist = [u \in Urls |-> [calls |-> 0, trues |-> 0, locked |-> 0]]

Returned(w, ok, why) ==
    /\ wk' = [wk EXCEPT ![w].pc = "returned", ![w].result = ok, ![w].reason = why]
    /\ hist' = [hist EXCEPT ![wk[w].source_url] =
                  [calls |-> @.calls + 1,
                   trues |-> @.trues + (IF ok THEN 1 ELSE 0),
                   locked |-> @.locked + (IF why = "locked" THEN 1 ELSE 0)]]

\* The row add_article(company_id, title, ..., source_url, published_at) inserts:
\* the sentiment columns default to None.
CallRow(w) ==
    ArticleRow(0, wk[w].company_id, wk[w].title, wk[w].source_url,
               wk[w].published_at, NULL)

\* A fetch worker thread enters add_article (attempt 0 of the retry loop).
AddArticleCall(w, c, t, u, p) ==
    /\ wk[w].pc \in {"idle", "returned"}
    /\ ncalls < MaxCalls
    /\ ncalls' = ncalls + 1
    /\ wk' = [wk EXCEPT ![w] = [IdleCall EXCEPT !.pc = "insert", !.company_id = c,
                                 !.title = t, !.source_url = u, !.published_at = p]]
    /\ UNCHANGED <<articles, scores, dblock, hist, pipeVars, aggVars,
                   news_sentiments, companies, svcVars>>

\* cursor.execute(INSERT ...) succeeds: the connection now holds the write lock.
AddArticleInsert(w) ==
    /\ wk[w].pc = "insert"
    /\ InsertArticle(articles, dblock, w, CallRow(w)).outcome = "ok"
    /\ dblock' = w
    /\ wk' = [wk EXCEPT ![w].pc = "commit"]
    /\ UNCHANGED <<articles, scores, ncalls, hist, pipeVars, aggVars,
                   news_sentiments, companies, svcVars>>

\* conn.commit(); return True
AddArticleCommit(w) ==
    /\ wk[w].pc = "commit"
    /\ articles' = InsertArticle(articles, dblock, w, CallRow(w)).tbl
    /\ dblock' = 0
    /\ Returned(w, TRUE, "inserted")
    /\ UNCHANGED <<scores, ncalls, pipeVars, aggVars,
                   news_sentiments, companies, svcVars>>

\* except sqlite3.IntegrityError: return False (the context manager rolls back).
AddArticleDuplicate(w) ==
    /\ wk[w].pc = "insert"
    /\ InsertArticle(articles, dblock, w, CallRow(w)).outcome = "integrity"
    /\ Returned(w, FALSE, "duplicate")
    /\ UNCHANGED <<articles, scores, dblock, ncalls, pipeVars, aggVars,
                   news_sentiments, companies, svcVars>>

\* add_article with one retry more than max_retries allows.
AddArticleLockedOneMore(w) ==
    /\ wk[w].pc = "insert"
    /\ InsertArticle(articles, dblock, w, CallRow(w)).outcome = "locked"
    /\ \/ /\ wk[w].attempt < max_retries
          /\ wk' = [wk EXCEPT ![w].attempt = @ + 1,
                              ![w].slept = Append(@, retry_delay_ms * (wk[w].attempt + 1))]
          /\ UNCHANGED hist
       \/ /\ ~(wk[w].attempt < max_retries)
          /\ Returned(w, FALSE, "locked")
    /\ UNCHANGED <<articles, scores, dblock, ncalls, pipeVars, aggVars,
                   news_sentiments, companies, svcVars>>

\* except sqlite3.OperationalError "database is locked": the busy timeout ran
\* out while another connection held the write lock.
AddArticleLocked(w) ==
    /\ wk[w].pc = "insert"
    /\ InsertArticle(articles, dblock, w, CallRow(w)).outcome = "locked"
    /\ \/ /\ wk[w].attempt < max_retries - 1
          /\ wk' = [wk EXCEPT ![w].attempt = @ + 1,
                              ![w].slept = Append(@, retry_delay_ms * (wk[w].attempt + 1))]
          /\ UNCHANGED hist
       \/ /\ ~(wk[w].attempt < max_retries - 1)
          /\ Returned(w, FALSE, "locked")
    /\ UNCHANGED <<articles, scores, dblock, ncalls, pipeVars, aggVars,
                   news_sentiments, companies, svcVars>>

StorePub == [h |-> 24, tz |-> "naive"]

StoreNext ==
    \/ \E w \in StoreWorkers, c \in Companies, t \in Titles, u \in Urls :
          AddArticleCall(w, c, t, u, StorePub)
    \/ \E w \in StoreWorkers : AddArticleInsert(w)
    \/ \E w \in StoreWorkers : AddArticleCommit(w)
    \/ \E w \in StoreWorkers : AddArticleDuplicate(w)
    \/ \E w \in StoreWorkers : AddArticleLocked(w)

\* ------------------------------------------------------- exact rationals

Abs(x) == IF x < 0 THEN -x ELSE x
Max(a, b) == IF a > b THEN a ELSE b

RECURSIVE GCD(_, _)
GCD(a, b) == IF b = 0 THEN a ELSE GCD(b, a % b)

\* n / d in lowest terms, d # 0.
Rat(n, d) ==
    LET g == GCD(Abs(n), Abs(d))
        sgn == IF d < 0 THEN -1 ELSE 1
    IN  [n |-> sgn * (n \div g), d |-> sgn * (d \div g)]

RZero == [n |-> 0, d |-> 1]
RAdd(a, b) == Rat(a.n * b.d + b.n * a.d, a.d * b.d)
RMul(a, b) == Rat(a.n * b.n, a.d * b.d)
RDiv(a, b) == Rat(a.n * b.d, a.d * b.n)
RLess(a, b) == a.n * b.d < b.n * a.d
RInt(k) == [n |-> k, d |-> 1]

RECURSIVE RSum(_)
RSum(s) == IF s = <<>> THEN RZero ELSE RAdd(Head(s), RSum(Tail(s)))

\* A stored sentiment_score (tenths) as the REAL it is.
Sentiment(v) == Rat(v, 10)

\* -------------------------------------------------------- the aggregation

IsScored(row) == row.sentiment_score # NULL

\* WHERE DATE(a.published_at) = ?
OnDate(row, d) == DateOf(row.published_at.h) = d

RECURSIVE SelectRows(_, _, _)
SelectRows(tbl, d, c) ==
    IF tbl = <<>> THEN <<>>
    ELSE (IF OnDate(Head(tbl), d) /\ (c = 0 \/ Head(tbl).company_id = c)
          THEN <<Head(tbl)>> ELSE <<>>) \o SelectRows(Tail(tbl), d, c)

\* _calculate_scores' query: the date's articles, ORDER BY c.id (within a
\* company in rowid order, the order the scan yields them).
RECURSIVE BatchRowsFrom(_, _, _)
BatchRowsFrom(tbl, d, c) ==
    IF c > NumCompanies THEN <<>>
    ELSE SelectRows(tbl, d, c) \o BatchRowsFrom(tbl, d, c + 1)

BatchRows(tbl, d) == BatchRowsFrom(tbl, d, 1)

\* get_articles_for_date: the date's articles in rowid order.
get_articles_for_date(tbl, d) == SelectRows(tbl, d, 0)

\* The keys of a dict filled while iterating `rows`: insertion order.
RECURSIVE DictKeys(_, _)
DictKeys(rows, seen) ==
    IF rows = <<>> THEN <<>>
    ELSE IF Head(rows).company_id \in seen THEN DictKeys(Tail(rows), seen)
    ELSE <<Head(rows).company_id>>
           \o DictKeys(Tail(rows), seen \cup {Head(rows).company_id})

\* time_decay = max(0.0, 1.0 - hours_ago * 0.1)
TimeDecayNoClamp(now, published_at) ==
    Rat(10 - (now - published_at.h) * DecayPerHourTenths, 10)

TimeDecay(now, published_at) ==
    Rat(Max(0, 10 - (now - published_at.h) * DecayPerHourTenths), 10)

\* final_score = sentiment_score * time_decay
FinalScore(now, row) ==
    RMul(Sentiment(row.sentiment_score[1]), TimeDecay(now, row.published_at))

ScoredOf(rows, c) == SelectSeq(rows, LAMBDA r : r.company_id = c /\ IsScored(r))

RECURSIVE MapFinal(_, _)
MapFinal(now, rows) ==
    IF rows = <<>> THEN <<>>
    ELSE <<FinalScore(now, Head(rows))>> \o MapFinal(now, Tail(rows))

RECURSIVE MapRaw(_)
MapRaw(rows) ==
    IF rows = <<>> THEN <<>>
    ELSE <<Sentiment(Head(rows).sentiment_score[1])>> \o MapRaw(Tail(rows))

RECURSIVE MapDivide(_, _)
MapDivide(s, by) ==
    IF s = <<>> THEN <<>> ELSE <<RDiv(Head(s), by)>> \o MapDivide(Tail(s), by)

\* sum(xs) / len(xs)
Mean(xs) == RDiv(RSum(xs), RInt(Len(xs)))

\* list.sort(key=score, reverse=True): stable, equal keys keep their order.
RECURSIVE InsertDescUnstable(_, _)
InsertDescUnstable(s, x) ==
    IF s = <<>> THEN <<x>>
    ELSE IF ~RLess(x.score, Head(s).score) THEN <<x>> \o s
    ELSE <<Head(s)>> \o InsertDescUnstable(Tail(s), x)

RECURSIVE InsertDesc(_, _)
InsertDesc(s, x) ==
    IF s = <<>> THEN <<x>>
    ELSE IF RLess(Head(s).score, x.score) THEN <<x>> \o s
    ELSE <<Head(s)>> \o InsertDesc(Tail(s), x)

RECURSIVE SortByScoreDesc(_)
SortByScoreDesc(s) ==
    IF s = <<>> THEN <<>>
    ELSE InsertDesc(SortByScoreDesc(SubSeq(s, 1, Len(s) - 1)), s[Len(s)])

\* enumerate(ranking, 1)
WithRanks(s) == [i \in 1..Len(s) |-> [s[i] EXCEPT !.rank = i]]

\* The value the loop variable time_decay holds after the loop over the rows:
\* that of the last row with a sentiment score, whatever its company.
LastTimeDecay(now, rows) ==
    LET scored == SelectSeq(rows, IsScored)
    IN  TimeDecay(now, scored[Len(scored)].published_at)

\* avg_sentiment = sum(s / time_decay for s in data["scores"]) / len(...)
BatchAvgSentiment(now, rows, c) ==
    Mean(MapDivide(MapFinal(now, ScoredOf(rows, c)), LastTimeDecay(now, rows)))

\* One entry of `ranking` before the sort.
BatchItem(now, rows, c) ==
    [company_id |-> c,
     score |-> Mean(MapFinal(now, ScoredOf(rows, c))),
     article_count |-> Len(ScoredOf(rows, c)),
     avg_sentiment |-> BatchAvgSentiment(now, rows, c),
     rank |-> 0]

RECURSIVE BatchItems(_, _, _)
BatchItems(now, rows, keys) ==
    IF keys = <<>> THEN <<>>
    ELSE (IF Len(ScoredOf(rows, Head(keys))) > 0
          THEN <<BatchItem(now, rows, Head(keys))>> ELSE <<>>)
         \o BatchItems(now, rows, Tail(keys))

\* _calculate_scores up to the sorted ranking, or the exception it raises:
\*   TypeError          current_time - pub_time with an aware pub_time
\*   ZeroDivisionError  s / time_decay with the leaked time_decay = 0.0
BatchCompute(tbl, d, now) ==
    LET rows == BatchRows(tbl, d)
        scored == SelectSeq(rows, IsScored)
    IN  IF rows = <<>> THEN [status |-> "empty", ranking |-> <<>>]
        ELSE IF \E i \in 1..Len(scored) : scored[i].published_at.tz = "utc"
        THEN [status |-> "TypeError", ranking |-> <<>>]
        ELSE IF scored = <<>> THEN [status |-> "ok", ranking |-> <<>>]
        ELSE IF LastTimeDecay(now, rows).n = 0
        THEN [status |-> "ZeroDivisionError", ranking |-> <<>>]
        ELSE [status |-> "ok",
              ranking |-> WithRanks(SortByScoreDesc(
                              BatchItems(now, rows, DictKeys(rows, {}))))]

\* ScoreCalculator: the thresholds, in hundredths.
SENTIMENT_THRESHOLD_POSITIVE == 5
SENTIMENT_THRESHOLD_NEGATIVE == -5

\* ScoreCalculator._calculate_scores: one company's entry.  article_count
\* counts every article of the date, scored or not.
ApiItem(rows, c) ==
    LET mine == SelectSeq(rows, LAMBDA r : r.company_id = c)
        sentiment_scores == ScoredOf(rows, c)
        article_count == Len(mine)
        avg_sentiment == IF sentiment_scores = <<>> THEN RZero
                         ELSE Mean(MapRaw(sentiment_scores))
        positive_count == Len(SelectSeq(sentiment_scores,
            LAMBDA r : r.sentiment_score[1] * 10 > SENTIMENT_THRESHOLD_POSITIVE))
        negative_count == Len(SelectSeq(sentiment_scores,
            LAMBDA r : r.sentiment_score[1] * 10 < SENTIMENT_THRESHOLD_NEGATIVE))
        sentiment_ratio == IF article_count > 0
                           THEN Rat(positive_count - negative_count, article_count)
                           ELSE RZero
    IN  [company_id |-> c,
         score |-> RAdd(RMul(sentiment_ratio, RInt(100)), RMul(avg_sentiment, RInt(50))),
         article_count |-> article_count,
         avg_sentiment |-> avg_sentiment,
         rank |-> 0]

RECURSIVE ApiItems(_, _)
ApiItems(rows, keys) ==
    IF keys = <<>> THEN <<>>
    ELSE <<ApiItem(rows, Head(keys))>> \o ApiItems(rows, Tail(keys))

\* ScoreCalculator.calculate_for_date
calculate_for_date(tbl, d) ==
    LET rows == get_articles_for_date(tbl, d)
        ranked == WithRanks(SortByScoreDesc(ApiItems(rows, DictKeys(rows, {}))))
    IN  IF rows = <<>> THEN [companies_scored |-> 0, total_articles |-> 0, scores |-> <<>>]
        ELSE [companies_scored |-> Len(ranked), total_articles |-> Len(rows),
              scores |-> ranked]

\* save_score: INSERT OR REPLACE under UNIQUE (company_id, date), committed.
SaveScoreInsertOnly(tbl, row) == tbl \cup {row}

save_score(tbl, row) ==
    {r \in tbl : ~(r.company_id = row.company_id /\ r.date = row.date)} \cup {row}

\* The scores row save_score writes for a ranking entry; `run` records the
\* run that wrote it.
ScoreRow(item, d, run) ==
    [company_id |-> item.company_id, date |-> d, score |-> item.score,
     article_count |-> item.article_count, avg_sentiment |-> item.avg_sentiment,
     rank |-> item.rank, run |-> run]

\* What a reader of the scores table sees for a date.
Columns(r) ==
    [company_id |-> r.company_id, score |-> r.score,
     article_count |-> r.article_count, avg_sentiment |-> r.avg_sentiment,
     rank |-> r.rank]

Visible(tbl, d) ==
    {[row |-> Columns(r),
      copies |-> Cardinality({x \in tbl : x.date = d /\ Columns(x) = Columns(r)})] :
        r \in {x \in tbl : x.date = d}}

Runners == 1..NumRunners
Dates == {DateOf(h) : h \in PubHours \cup NowHours}

IdleRunner ==
    [pc |-> "idle", kind |-> "none", date |-> 0, now |-> 0, ranking |-> <<>>,
     idx |-> 0, run |-> 0]

AggInit ==
    /\ clock = 19
    /\ runner = [p \in Runners |-> IdleRunner]
    /\ nruns = 0
    /\ runInfo = <<>>

Busy(p) == runner[p].pc = "saving"
OthersBusy(p) == \E q \in Runners \ {p} : Busy(q)

\* The record of a run at its start; a run that starts while another is
\* writing is not alone, and neither is the other.
StartRun(p, kind, d, now, status, ranking) ==
    LET run == nruns + 1
        over == status # "ok" \/ ranking = <<>>
    IN  /\ nruns < MaxRuns
        /\ runner[p].pc # "saving"
        /\ nruns' = run
        /\ runner' = [runner EXCEPT ![p] =
              [pc |-> IF status \in {"TypeError", "ZeroDivisionError"} THEN "crashed"
                      ELSE IF over THEN "done" ELSE "saving",
               kind |-> kind, date |-> d, now |-> now, ranking |-> ranking,
               idx |-> 1, run |-> run]]
        /\ runInfo' = Append(
              [r \in 1..Len(runInfo) |->
                  IF \E q \in Runners : Busy(q) /\ runner[q].run = r
                  THEN [runInfo[r] EXCEPT !.alone = FALSE] ELSE runInfo[r]],
              [kind |-> kind, date |-> d, now |-> now, status |-> status,
               cos |-> {ranking[i].company_id : i \in 1..Len(ranking)},
               alone |-> ~OthersBusy(p),
               done |-> status \in {"ok", "empty"} /\ ranking = <<>>,
               rows |-> Visible(scores, d)])

\* run() step 5: target_date = datetime.now().date(); _calculate_scores reads
\* the articles, takes current_time = datetime.now() and builds the ranking.
BatchCalculate(p) ==
    \E now \in NowHours :
        /\ now >= clock
        /\ clock' = now
        /\ LET r == BatchCompute(articles, DateOf(now), now)
           IN  StartRun(p, "batch", DateOf(now), now, r.status, r.ranking)
        /\ UNCHANGED <<articles, scores, storeVars, pipeVars,
                   news_sentiments, companies, svcVars>>

\* POST /scores/calculate/{date_str}: calculate_for_date; nothing is saved
\* when companies_scored == 0.
ApiCalculate(p, d) ==
    /\ LET r == calculate_for_date(articles, d)
       IN  StartRun(p, "api", d, clock, "ok", r.scores)
    /\ UNCHANGED <<articles, scores, clock, storeVars, pipeVars,
                   news_sentiments, companies, svcVars>>

\* One iteration of the loop over the ranking: save_score(...) commits one row.
SaveNext(p) ==
    LET me == runner[p]
        last == me.idx = Len(me.ranking)
    IN  /\ me.pc = "saving"
        /\ scores' = save_score(scores, ScoreRow(me.ranking[me.idx], me.date, me.run))
        /\ runner' = [runner EXCEPT ![p].idx = @ + 1,
                                    ![p].pc = IF last THEN "done" ELSE "saving"]
        /\ runInfo' = [runInfo EXCEPT ![me.run].done = last,
                                      ![me.run].rows =
                                          IF last THEN Visible(scores', me.date) ELSE @]

BatchSaveScore(p) ==
    /\ runner[p].kind = "batch"
    /\ SaveNext(p)
    /\ UNCHANGED <<articles, clock, nruns, storeVars, pipeVars,
                   news_sentiments, companies, svcVars>>

ApiSaveScore(p) ==
    /\ runner[p].kind = "api"
    /\ SaveNext(p)
    /\ UNCHANGED <<articles, clock, nruns, storeVars, pipeVars,
                   news_sentiments, companies, svcVars>>

AggNext ==
    \/ \E p \in Runners : BatchCalculate(p)
    \/ \E p \in Runners, d \in Dates : ApiCalculate(p, d)
    \/ \E p \in Runners : BatchSaveScore(p)
    \/ \E p \in Runners : ApiSaveScore(p)

\* ---------------------------------------------------- the batch pipeline

\* What get_articles may return for a company: at most MaxFetch articles,
\* their titles distinct (it removes duplicate titles).
PipePubs == {[h |-> h, tz |-> "naive"] : h \in {24, 29}}
RawArticles == [title : Titles, source_url : Urls, published_at : PipePubs]

RECURSIVE RawLists(_)
RawLists(n) ==
    IF n = 0 THEN {<<>>}
    ELSE RawLists(n - 1) \cup
         {Append(l, a) : l \in {x \in RawLists(n - 1) : Len(x) = n - 1},
                         a \in RawArticles}

DistinctTitles(l) == \A i, j \in 1..Len(l) : l[i].title = l[j].title => i = j

IdleTask == [st |-> "none", n_fetched |-> 0, added_count |-> 0]

PipeInit ==
    /\ phase = "start"
    /\ task = [c \in Companies |-> IdleTask]
    /\ fetched = [c \in Companies |-> <<>>]
    /\ collected = {}
    /\ counters = [articles_fetched |-> 0, articles_added |-> 0]
    /\ atask = <<>>
    /\ analyzed = 0

Running(c) == task[c].st \in {"fetching", "storing"}
Finished(c) == task[c].st \in {"done", "failed"}

\* run(): init_database, _register_companies, then _fetch_articles submits one
\* fetch_company_articles future per company.
SubmitFetches ==
    /\ phase = "start"
    /\ phase' = "fetch"
    /\ companies' = companies \cup DOMAIN task
    /\ task' = [c \in DOMAIN task |-> [IdleTask EXCEPT !.st = "queued"]]
    /\ UNCHANGED <<articles, scores, news_sentiments, fetched, collected, counters,
                   atask, analyzed, storeVars, aggVars, svcVars>>

\* A pool thread takes a queued future: ThreadPoolExecutor(max_workers=3).
FetchStartNoLimit(c) ==
    /\ task[c].st = "queued"
    /\ task' = [task EXCEPT ![c].st = "fetching"]
    /\ UNCHANGED <<articles, scores, phase, fetched, collected, counters, atask,
                   analyzed, storeVars, aggVars,
                   news_sentiments, companies, svcVars>>

FetchStart(c) ==
    /\ task[c].st = "queued"
    /\ Cardinality({x \in DOMAIN task : Running(x)}) < fetch_max_workers
    /\ task' = [task EXCEPT ![c].st = "fetching"]
    /\ UNCHANGED <<articles, scores, phase, fetched, collected, counters, atask,
                   analyzed, storeVars, aggVars,
                   news_sentiments, companies, svcVars>>

\* self.fetcher.get_articles(...) returns; company_id = get_company_by_ticker.
FetchReturn(c, l) ==
    /\ task[c].st = "fetching"
    /\ task' = [task EXCEPT ![c].st = "storing", ![c].n_fetched = Len(l)]
    /\ fetched' = [fetched EXCEPT ![c] = l]
    /\ UNCHANGED <<articles, scores, phase, collected, counters, atask, analyzed,
                   storeVars, aggVars,
                   news_sentiments, companies, svcVars>>

\* The task raises (nothing in fetch_company_articles catches, for one, the
\* OperationalError of get_company_by_ticker): the future holds the exception.
FetchRaise(c) ==
    /\ task[c].st = "fetching"
    /\ task' = [task EXCEPT ![c].st = "failed"]
    /\ UNCHANGED <<articles, scores, phase, fetched, collected, counters, atask,
                   analyzed, storeVars, aggVars,
                   news_sentiments, companies, svcVars>>

\* for article in articles: success = add_article(...): one committed insert,
\* False on a duplicate source_url or once the lock retries are used up.
StoreArticle(c, lock_failure) ==
    /\ task[c].st = "storing"
    /\ fetched[c] # <<>>
    /\ LET a == Head(fetched[c])
           ins == InsertArticle(articles, 0, c,
                     ArticleRow(0, c, a.title, a.source_url, a.published_at, NULL))
           success == ins.outcome = "ok" /\ ~lock_failure
       IN  /\ articles' = IF success THEN ins.tbl ELSE articles
           /\ task' = [task EXCEPT ![c].added_count = @ + (IF success THEN 1 ELSE 0)]
    /\ fetched' = [fetched EXCEPT ![c] = Tail(@)]
    /\ UNCHANGED <<scores, phase, collected, counters, atask, analyzed,
                   storeVars, aggVars,
                   news_sentiments, companies, svcVars>>

\* return len(articles), added_count
FetchDone(c) ==
    /\ task[c].st = "storing"
    /\ fetched[c] = <<>>
    /\ task' = [task EXCEPT ![c].st = "done"]
    /\ UNCHANGED <<articles, scores, phase, fetched, collected, counters, atask,
                   analyzed, storeVars, aggVars,
                   news_sentiments, companies, svcVars>>

\* for future in as_completed(futures): fetched, added = future.result().
\* result() re-raises a failed task's exception in the main thread, which
\* leaves the loop for the executor's __exit__.
Collect(c) ==
    /\ phase = "fetch"
    /\ Finished(c)
    /\ c \notin collected
    /\ collected' = collected \cup {c}
    /\ IF task[c].st = "failed"
       THEN phase' = "raising" /\ UNCHANGED counters
       ELSE /\ UNCHANGED phase
            /\ counters' = [articles_fetched |-> counters.articles_fetched + task[c].n_fetched,
                            articles_added |-> counters.articles_added + task[c].added_count]
    /\ UNCHANGED <<articles, scores, task, fetched, atask, analyzed, storeVars, aggVars,
                   news_sentiments, companies, svcVars>>

\* The executor's __exit__ is shutdown(wait=True): every submitted task still
\* runs to its end, then the exception leaves _fetch_articles and run().
Abort ==
    /\ phase = "raising"
    /\ \A c \in DOMAIN task : Finished(c)
    /\ phase' = "aborted"
    /\ UNCHANGED <<articles, scores, task, fetched, collected, counters, atask,
                   analyzed, storeVars, aggVars,
                   news_sentiments, companies, svcVars>>

IdleAnalysis ==
    [st |-> "queued", attempt |-> 0, slept |-> <<>>, result |-> 0, why |-> "none",
     writes |-> 0]

AnalysisRunning(i) == atask[i].st = "running"
AnalysisFinished(i) == atask[i].st \in {"done", "collected"}

\* The ids the SELECT yields: the articles with sentiment_score IS NULL, the
\* first SelectLimit of them in rowid order.
Unscored(tbl) == {i \in 1..Len(tbl) : ~IsScored(tbl[i])}

SelectUnscored(tbl) ==
    {i \in Unscored(tbl) : Cardinality({j \in Unscored(tbl) : j < i}) < SelectLimit}

\* _analyze_sentiment: the fetch pool has shut down and every future's result
\* is taken; SELECT ... WHERE a.sentiment_score IS NULL LIMIT 1000, then one
\* analyze_article future is submitted per selected article.
AnalyzeSelectAll ==
    /\ phase = "fetch"
    /\ collected = DOMAIN task
    /\ phase' = "analyze"
    /\ atask' = [i \in 1..Len(articles) |-> IdleAnalysis]
    /\ UNCHANGED <<articles, scores, task, fetched, collected, counters, analyzed,
                   storeVars, aggVars,
                   news_sentiments, companies, svcVars>>

AnalyzeSelect ==
    /\ phase = "fetch"
    /\ collected = DOMAIN task
    /\ phase' = "analyze"
    /\ atask' = [i \in SelectUnscored(articles) |-> IdleAnalysis]
    /\ UNCHANGED <<articles, scores, task, fetched, collected, counters, analyzed,
                   storeVars, aggVars,
                   news_sentiments, companies, svcVars>>

\* A pool thread takes a queued future: ThreadPoolExecutor(max_workers=5).
AnalyzeStartNoLimit(i) ==
    /\ phase = "analyze"
    /\ atask[i].st = "queued"
    /\ atask' = [atask EXCEPT ![i].st = "running"]
    /\ UNCHANGED <<articles, scores, phase, task, fetched, collected, counters,
                   analyzed, storeVars, aggVars,
                   news_sentiments, companies, svcVars>>

AnalyzeStart(i) ==
    /\ phase = "analyze"
    /\ atask[i].st = "queued"
    /\ Cardinality({j \in DOMAIN atask : AnalysisRunning(j)}) < analyze_max_workers
    /\ atask' = [atask EXCEPT ![i].st = "running"]
    /\ UNCHANGED <<articles, scores, phase, task, fetched, collected, counters,
                   analyzed, storeVars, aggVars,
                   news_sentiments, companies, svcVars>>

\* label = "positive" if score > 0, "negative" if score < 0, else "neutral"
Label(v) == IF v > 0 THEN "positive" ELSE IF v < 0 THEN "negative" ELSE "neutral"

\* A news_sentiments row; its url_hash is md5(f"{ticker}_{published_at}"), here
\* the pair the hash is taken of.
SentimentRow(company_id, published_at, sentiment_score, label) ==
    [ticker |-> company_id, published_at |-> published_at,
     sentiment_score |-> sentiment_score, label |-> label,
     url_hash |-> <<company_id, published_at>>]

\* save_news_sentiment: INSERT under UNIQUE url_hash; on IntegrityError it
\* returns False and the table is as it was.
save_news_sentiment(tbl, row) ==
    IF \E r \in tbl : r.url_hash = row.url_hash THEN tbl ELSE tbl \cup {row}

\* An attempt of analyze_article goes through: analyze(text) gives the score,
\* the UPDATE of the article's sentiment columns is committed, the
\* news_sentiments record is saved (its failure is not looked at); return 1.
AnalyzeUpdate(i, v) ==
    /\ phase = "analyze"
    /\ atask[i].st = "running"
    /\ articles' = [articles EXCEPT ![i].sentiment_score = <<v>>]
    /\ news_sentiments' =
          save_news_sentiment(news_sentiments,
              SentimentRow(articles[i].company_id, articles[i].published_at, v, Label(v)))
    /\ atask' = [atask EXCEPT ![i].st = "done", ![i].result = 1, ![i].why = "ok",
                                ![i].writes = @ + 1]
    /\ UNCHANGED <<scores, companies, phase, task, fetched, collected, counters,
                   analyzed, storeVars, aggVars, svcVars>>

\* except sqlite3.OperationalError "database is locked": another connection
\* holds the write lock.  Sleep and try again, or return 0 after the last attempt.
AnalyzeLocked(i) ==
    /\ phase = "analyze"
    /\ atask[i].st = "running"
    /\ IF atask[i].attempt < analyze_max_retries - 1
       THEN atask' = [atask EXCEPT ![i].attempt = @ + 1,
                         ![i].slept = Append(@, analyze_retry_delay_ms * (atask[i].attempt + 1))]
       ELSE atask' = [atask EXCEPT ![i].st = "done", ![i].result = 0, ![i].why = "locked"]
    /\ UNCHANGED <<articles, scores, phase, task, fetched, collected, counters,
                   analyzed, storeVars, aggVars,
                   news_sentiments, companies, svcVars>>

\* except Exception (the analyzer raises, another storage error): return 0.
AnalyzeRaiseAborts(i) ==
    /\ phase = "analyze"
    /\ atask[i].st = "running"
    /\ atask' = [atask EXCEPT ![i].st = "done", ![i].result = 0, ![i].why = "error"]
    /\ phase' = "aborted"
    /\ UNCHANGED <<articles, scores, task, fetched, collected, counters,
                   analyzed, storeVars, aggVars,
                   news_sentiments, companies, svcVars>>

AnalyzeRaise(i) ==
    /\ phase = "analyze"
    /\ atask[i].st = "running"
    /\ atask' = [atask EXCEPT ![i].st = "done", ![i].result = 0, ![i].why = "error"]
    /\ UNCHANGED <<articles, scores, phase, task, fetched, collected, counters,
                   analyzed, storeVars, aggVars,
                   news_sentiments, companies, svcVars>>

\* for future in as_completed(futures): analyzed_count += future.result().  The
\* call's locals are gone; its result and what it did to the article remain.
AnalyzeCollect(i) ==
    /\ phase = "analyze"
    /\ atask[i].st = "done"
    /\ atask' = [atask EXCEPT ![i].st = "collected", ![i].attempt = 0, ![i].slept = <<>>]
    /\ analyzed' = analyzed + atask[i].result
    /\ UNCHANGED <<articles, scores, phase, task, fetched, collected, counters,
                   storeVars, aggVars,
                   news_sentiments, companies, svcVars>>

\* The analyze pool has shut down: _analyze_sentiment returns.
AnalyzeEndEarly ==
    /\ phase = "analyze"
    /\ phase' = "aggregate"
    /\ UNCHANGED <<articles, scores, task, fetched, collected, counters, atask,
                   analyzed, storeVars, aggVars,
                   news_sentiments, companies, svcVars>>

AnalyzeEnd ==
    /\ phase = "analyze"
    /\ \A i \in DOMAIN atask : atask[i].st = "collected"
    /\ phase' = "aggregate"
    /\ UNCHANGED <<articles, scores, task, fetched, collected, counters, atask,
                   analyzed, storeVars, aggVars,
                   news_sentiments, companies, svcVars>>

\* run() step 5, by the batch process (runner 1).
PipeCalculate ==
    /\ phase = "aggregate"
    /\ runner[1].pc = "idle"
    /\ BatchCalculate(1)

PipeSaveScore ==
    /\ phase = "aggregate"
    /\ BatchSaveScore(1)

\* run() returns, or the exception of _calculate_scores ends it.
PipeEnd ==
    /\ phase = "aggregate"
    /\ runner[1].pc \in {"done", "crashed"}
    /\ phase' = IF runner[1].pc = "done" THEN "done" ELSE "crashed"
    /\ UNCHANGED <<articles, scores, task, fetched, collected, counters, atask,
                   analyzed, storeVars, aggVars,
                   news_sentiments, companies, svcVars>>

PipeNext ==
    \/ SubmitFetches
    \/ \E c \in Companies : FetchStart(c)
    \/ \E c \in Companies, l \in {x \in RawLists(MaxFetch) : DistinctTitles(x)} :
          FetchReturn(c, l)
    \/ \E c \in Companies : FetchRaise(c)
    \/ \E c \in Companies, lf \in BOOLEAN : StoreArticle(c, lf)
    \/ \E c \in Companies : FetchDone(c)
    \/ \E c \in Companies : Collect(c)
    \/ Abort
    \/ AnalyzeSelect
    \/ \E i \in DOMAIN atask : AnalyzeStart(i)
    \/ \E i \in DOMAIN atask, v \in SentimentValues : AnalyzeUpdate(i, v)
    \/ \E i \in DOMAIN atask : AnalyzeLocked(i)
    \/ \E i \in DOMAIN atask : AnalyzeRaise(i)
    \/ \E i \in DOMAIN atask : AnalyzeCollect(i)
    \/ AnalyzeEnd
    \/ PipeCalculate
    \/ PipeSaveScore
    \/ PipeEnd

\* ------------------------------------------------- the sentiment analyzer

\* A text is None, the empty string, or a text in which MaxHits or fewer of
\* the positive and of the negative keywords occur.
Texts ==
    {[kind |-> "none", pos |-> 0, neg |-> 0], [kind |-> "empty", pos |-> 0, neg |-> 0]}
        \cup [kind : {"text"}, pos : 0..MaxHits, neg : 0..MaxHits]

\* What the FinBERT pipeline returns for a text: a label and the softmax
\* probability of the label, in tenths.
Labels == {"positive", "negative", "neutral"}
Confidences == {4, 7, 10}

\* _calculate_keyword_score
KeywordScore(text) ==
    IF text.pos + text.neg = 0 THEN RZero
    ELSE Rat(text.pos - text.neg, Max(1, text.pos + text.neg))

RNeg(a) == [n |-> -a.n, d |-> a.d]

\* The score before it is normalised.
CombinedScore(label, confidence, keyword_score) ==
    IF label = "positive"
    THEN RAdd(Rat(confidence, 10), RMul(keyword_score, Rat(3, 10)))
    ELSE IF label = "negative"
    THEN RAdd(RNeg(Rat(confidence, 10)), RMul(keyword_score, Rat(3, 10)))
    ELSE RMul(keyword_score, Rat(7, 10))

\* score = max(-1.0, min(1.0, score))
ClampNone(x) == x

Clamp(x) ==
    IF RLess(RInt(1), x) THEN RInt(1)
    ELSE IF RLess(x, RInt(-1)) THEN RInt(-1) ELSE x

IdleAnalyzer ==
    [pc |-> "idle", text |-> [kind |-> "none", pos |-> 0, neg |-> 0],
     classified |-> FALSE, label |-> "none", clf_score |-> 0,
     score |-> RZero, confidence |-> RZero]

\* analyze(text) is called.
AnalyzeCall(text) ==
    /\ analyzer.pc = "idle"
    /\ analyzer' = [IdleAnalyzer EXCEPT !.pc = "called", !.text = text]
    /\ UNCHANGED <<articles, scores, news_sentiments, companies, storeVars, pipeVars,
                   aggVars, fetcher, request>>

\* if not text: return 0.0, 0.0
AnalyzeNoText ==
    /\ analyzer.pc = "called"
    /\ analyzer.text.kind \in {"none", "empty"}
    /\ analyzer' = [analyzer EXCEPT !.pc = "returned", !.score = RZero,
                                     !.confidence = RZero]
    /\ UNCHANGED <<articles, scores, news_sentiments, companies, storeVars, pipeVars,
                   aggVars, fetcher, request>>

\* result = self.classifier(text[:512])[0]
AnalyzeClassify(label, clf_score) ==
    /\ analyzer.pc = "called"
    /\ analyzer.text.kind = "text"
    /\ analyzer' = [analyzer EXCEPT !.pc = "classified", !.classified = TRUE,
                                     !.label = label, !.clf_score = clf_score]
    /\ UNCHANGED <<articles, scores, news_sentiments, companies, storeVars, pipeVars,
                   aggVars, fetcher, request>>

\* The keyword score is combined with the classifier's result; return score,
\* confidence.
AnalyzeReturn ==
    /\ analyzer.pc = "classified"
    /\ analyzer' = [analyzer EXCEPT
          !.pc = "returned",
          !.score = Clamp(CombinedScore(analyzer.label, analyzer.clf_score,
                                        KeywordScore(analyzer.text))),
          !.confidence = Rat(analyzer.clf_score, 10)]
    /\ UNCHANGED <<articles, scores, news_sentiments, companies, storeVars, pipeVars,
                   aggVars, fetcher, request>>

AnalyzerNext ==
    \/ \E text \in Texts : AnalyzeCall(text)
    \/ AnalyzeNoText
    \/ \E label \in Labels, clf_score \in Confidences : AnalyzeClassify(label, clf_score)
    \/ AnalyzeReturn

\* ---------------------------------------------------- the source adapter

\* The tickers of NYSE_COMPANIES, and those _get_demo_articles has entries for.
TrackedTickers ==
    {"AAPL", "MSFT", "GOOGL", "AMZN", "TSLA", "META", "NVDA", "NFLX", "CRM", "ADOBE",
     "JPM", "BAC", "WFC", "GS", "MS", "BLK", "ICE", "CME",
     "JNJ", "UNH", "PFE", "ABBV", "MRK", "TMO", "LLY",
     "WMT", "KO", "PEP", "COST", "MCD", "NKE", "LOW",
     "V", "MA", "AXP", "XOM", "CVX", "BA", "HON", "GE"}

DemoTickers ==
    {"AAPL", "MSFT", "GOOGL", "AMZN", "TSLA", "META", "NVDA", "JPM", "V", "WMT"}

DemoArticlesPerTicker == 4

\* The titles an upstream provider returns; Lower is str.lower().
Headlines == {"Up", "UP"}
Lower(title) == "up"

\* What a provider call returns: no article or one, given by its title (the
\* other fields of a raw article do not matter to get_articles).
UpstreamLists == {<<>>} \cup {<<h>> : h \in Headlines}
ApiKeys == {"demo", "key"}
PageSizes == {1, 100}

\* Remove duplicates based on title: the first article of each lower-cased
\* title is kept.
RECURSIVE UniqueByTitle(_, _)
UniqueByTitle(list, seen_titles) ==
    IF list = <<>> THEN <<>>
    ELSE IF Lower(Head(list)) \in seen_titles
    THEN UniqueByTitle(Tail(list), seen_titles)
    ELSE <<Head(list)>> \o UniqueByTitle(Tail(list), seen_titles \cup {Lower(Head(list))})

\* _get_demo_articles: the entries of demo_articles.get(ticker, []).
DemoArticles(ticker) ==
    IF ticker \in DemoTickers
    THEN [i \in 1..DemoArticlesPerTicker |-> <<"demo", ticker, i - 1>>]
    ELSE <<>>

Take(list, n) == SubSeq(list, 1, IF n < Len(list) THEN n ELSE Len(list))

IdleFetcher ==
    [pc |-> "idle", ticker |-> "", api_key |-> "demo", page_size |-> 0,
     yfinance |-> <<>>, newsapi |-> <<>>, articles |-> <<>>, result |-> <<>>]

\* get_articles(ticker, company_name, days, page_size) is called.
GetArticlesCall(ticker, api_key, page_size) ==
    /\ fetcher.pc = "idle"
    /\ fetcher' = [IdleFetcher EXCEPT !.pc = "yfinance", !.ticker = ticker,
                                      !.api_key = api_key, !.page_size = page_size]
    /\ UNCHANGED <<articles, scores, news_sentiments, companies, storeVars, pipeVars,
                   aggVars, analyzer, request>>

\* yf_articles = self._get_yfinance_articles(...): its articles, or [] when
\* the provider has none or fails.
GetYfinanceArticles(list) ==
    /\ fetcher.pc = "yfinance"
    /\ fetcher' = [fetcher EXCEPT !.pc = "newsapi", !.yfinance = list, !.articles = list]
    /\ UNCHANGED <<articles, scores, news_sentiments, companies, storeVars, pipeVars,
                   aggVars, analyzer, request>>

\* if self.api_key != "demo": articles.extend(self._get_newsapi_articles(...))
GetNewsapiArticles(list) ==
    /\ fetcher.pc = "newsapi"
    /\ fetcher.api_key # "demo"
    /\ fetcher' = [fetcher EXCEPT !.pc = "merge", !.newsapi = list,
                                  !.articles = @ \o list]
    /\ UNCHANGED <<articles, scores, news_sentiments, companies, storeVars, pipeVars,
                   aggVars, analyzer, request>>

SkipNewsapi ==
    /\ fetcher.pc = "newsapi"
    /\ fetcher.api_key = "demo"
    /\ fetcher' = [fetcher EXCEPT !.pc = "merge"]
    /\ UNCHANGED <<articles, scores, news_sentiments, companies, storeVars, pipeVars,
                   aggVars, analyzer, request>>

\* The titles are deduplicated, the demo articles stand in when nothing is
\* left, and the first page_size articles are returned.
GetArticlesReturn ==
    /\ fetcher.pc = "merge"
    /\ LET unique_articles == UniqueByTitle(fetcher.articles, {})
           final == IF unique_articles = <<>> THEN DemoArticles(fetcher.ticker)
                    ELSE unique_articles
       IN  fetcher' = [fetcher EXCEPT !.pc = "returned",
                                      !.result = Take(final, fetcher.page_size)]
    /\ UNCHANGED <<articles, scores, news_sentiments, companies, storeVars, pipeVars,
                   aggVars, analyzer, request>>

FetcherNext ==
    \/ \E ticker \in TrackedTickers, api_key \in ApiKeys, page_size \in PageSizes :
          GetArticlesCall(ticker, api_key, page_size)
    \/ \E list \in UpstreamLists : GetYfinanceArticles(list)
    \/ \E list \in UpstreamLists : GetNewsapiArticles(list)
    \/ SkipNewsapi
    \/ GetArticlesReturn

\* ------------------------------------------------------ the query surface

\* A date string is the sequence of its fields between the dashes, a number
\* where the field is one: "2024-01-01" is <<2024, 1, 1>>, "2024-13-01" is
\* <<2024, 13, 1>>, "invalid-date" is <<"invalid", "date">>, "" is <<>>.
EmptyString == <<>>
DateStrings ==
    {<<2024, 1, 1>>, <<2024, 1, 2>>, <<2024, 13, 1>>, <<"invalid", "date">>}

\* datetime.strptime(s, "%Y-%m-%d").date(): the day (2024-01-01 is day 0), or
\* ValueError.
Strptime(s) ==
    IF Len(s) = 3 /\ s[1] = 2024 /\ s[2] = 1 /\ s[3] \in 1..31
    THEN [ok |-> TRUE, date |-> s[3] - 1]
    ELSE [ok |-> FALSE, date |-> 0]

\* The tickers a request names: those of the configured companies (a company's
\* ticker stands for its id) and one no company has.
UnknownTicker == 0
RequestTickers == Companies \cup {UnknownTicker}
DaysValues == {-1, 0, 1, 30, 365, 366}

\* get_company_by_ticker: the id, or None.
get_company_by_ticker(tbl, ticker) == IF ticker \in tbl THEN <<ticker>> ELSE NULL

Response(route, params, status, count) ==
    [pc |-> "responded", route |-> route, params |-> params, status |-> status,
     count |-> count]

IdleRequest == [pc |-> "idle", route |-> "none", params |-> <<>>, status |-> 0, count |-> 0]

ReadOnly ==
    UNCHANGED <<articles, scores, news_sentiments, companies, storeVars, pipeVars,
                aggVars, analyzer, fetcher>>

\* GET /scores/ranking/{date_str}
GetRanking(date_str) ==
    /\ LET parsed == Strptime(date_str)
       IN  request' =
              IF ~parsed.ok THEN Response("ranking", <<date_str>>, 400, 0)
              ELSE Response("ranking", <<date_str>>, 200,
                            Cardinality({r \in scores : r.date = parsed.date}))
    /\ ReadOnly

\* The loop of calculate_scores over result["scores"]: save_score for each.
RECURSIVE SaveAll(_, _, _)
SaveAll(tbl, items, d) ==
    IF items = <<>> THEN tbl
    ELSE SaveAll(save_score(tbl, ScoreRow(Head(items), d, 0)), Tail(items), d)

\* POST /scores/calculate/{date_str}, with no other writer on the database.
CalculateScores(date_str) ==
    /\ LET parsed == Strptime(date_str)
           result == calculate_for_date(articles, parsed.date)
       IN  IF ~parsed.ok
           THEN request' = Response("calculate", <<date_str>>, 400, 0)
                /\ UNCHANGED scores
           ELSE IF result.companies_scored = 0
           THEN request' = Response("calculate", <<date_str>>, 200, 0)
                /\ UNCHANGED scores
           ELSE request' = Response("calculate", <<date_str>>, 200, result.companies_scored)
                /\ scores' = SaveAll(scores, result.scores, parsed.date)
    /\ UNCHANGED <<articles, news_sentiments, companies, storeVars, pipeVars,
                   aggVars, analyzer, fetcher>>

\* get_daily_sentiments: one row per ticker with a news_sentiments row on the date.
DailyTickers(d) ==
    {r.ticker : r \in {x \in news_sentiments : DateOf(x.published_at.h) = d}}

\* GET /sentiments/daily?target_date=...: target_date is absent (None) or a
\* string; "if target_date:" takes the empty string for absent.
GetDailySentiments(target_date) ==
    /\ LET given == target_date # NULL /\ target_date[1] # EmptyString
           parsed == IF given THEN Strptime(target_date[1])
                     ELSE [ok |-> TRUE, date |-> DateOf(clock)]
       IN  request' =
              IF ~parsed.ok THEN Response("daily", <<target_date>>, 400, 0)
              ELSE Response("daily", <<target_date>>, 200,
                            Cardinality(DailyTickers(parsed.date)))
    /\ ReadOnly

\* get_ticker_sentiment_history: one row per date, of the last `days` days,
\* the ticker has news_sentiments rows on; LIMIT days.
HistoryDates(ticker, days) ==
    {DateOf(r.published_at.h) :
        r \in {x \in news_sentiments :
                 x.ticker = ticker /\ DateOf(x.published_at.h) >= DateOf(clock) - days}}

\* GET /sentiments/{ticker}?days=...
GetTickerHistoryNoLookup(ticker, days) ==
    /\ request' =
          IF days < 1 \/ days > 365
          THEN Response("history", <<ticker, days>>, 400, 0)
          ELSE Response("history", <<ticker, days>>, 200,
                        Cardinality(HistoryDates(ticker, days)))
    /\ ReadOnly

GetTickerHistory(ticker, days) ==
    /\ request' =
          IF get_company_by_ticker(companies, ticker) = NULL
          THEN Response("history", <<ticker, days>>, 404, 0)
          ELSE IF days < 1 \/ days > 365
          THEN Response("history", <<ticker, days>>, 400, 0)
          ELSE Response("history", <<ticker, days>>, 200,
                        Cardinality(HistoryDates(ticker, days)))
    /\ ReadOnly

\* GET /scores/company/{ticker}?days=...: ORDER BY date DESC LIMIT days (a
\* negative LIMIT is no limit).
GetCompanyScores(ticker, days) ==
    /\ LET rows == {r \in scores : r.company_id = ticker}
           n == Cardinality(rows)
       IN  request' =
              IF get_company_by_ticker(companies, ticker) = NULL
              THEN Response("company_scores", <<ticker, days>>, 404, 0)
              ELSE Response("company_scores", <<ticker, days>>, 200,
                            IF days < 0 \/ n < days THEN n ELSE days)
    /\ ReadOnly

ApiNext ==
    \/ \E date_str \in DateStrings : GetRanking(date_str)
    \/ \E date_str \in DateStrings : CalculateScores(date_str)
    \/ \E target_date \in {NULL, <<EmptyString>>} \cup {<<s>> : s \in DateStrings} :
          GetDailySentiments(target_date)
    \/ \E ticker \in RequestTickers, days \in DaysValues : GetTickerHistory(ticker, days)
    \/ \E ticker \in RequestTickers, days \in DaysValues : GetCompanyScores(ticker, days)


SvcInit ==
    /\ analyzer = IdleAnalyzer
    /\ fetcher = IdleFetcher
    /\ request = IdleRequest

\* --------------------------------------------------- the specifications

\* The batch run of run(), on a new database.
Init ==
    /\ articles = <<>>
    /\ scores = {}
    /\ news_sentiments = {}
    /\ companies = {}
    /\ StoreInit /\ PipeInit /\ AggInit /\ SvcInit

Next == PipeNext

Spec == Init /\ [][Next]_vars

\* Fetch worker threads calling add_article on a new database, the companies
\* registered.
StoreInitAll ==
    /\ articles = <<>>
    /\ scores = {}
    /\ news_sentiments = {}
    /\ companies = Companies
    /\ StoreInit /\ PipeInit /\ AggInit /\ SvcInit

SpecStore == StoreInitAll /\ [][StoreNext]_vars

\* One call of SentimentAnalyzer.analyze, for every text and every result of
\* the classifier.
SpecAnalyzer == StoreInitAll /\ [][AnalyzerNext]_vars

\* One call of NewsAPIFetcher.get_articles, for every tracked ticker and every
\* answer of the providers.
SpecFetcher == StoreInitAll /\ [][FetcherNext]_vars

\* Aggregation runs (the batch step, the calculate endpoint) over a database
\* whose articles are already fetched and analysed.
PubChoices ==
    {[h |-> h, tz |-> "naive"] : h \in PubHours} \cup {[h |-> 29, tz |-> "utc"]}

StoredRows ==
    [company_id : Companies, published_at : PubChoices,
     sentiment_score : {NULL} \cup {<<v>> : v \in SentimentValues}]

RECURSIVE Tables(_)
Tables(n) ==
    IF n = 0 THEN {<<>>}
    ELSE Tables(n - 1) \cup
         {Append(t, ArticleRow(n, r.company_id, 1, n, r.published_at, r.sentiment_score)) :
             t \in {x \in Tables(n - 1) : Len(x) = n - 1}, r \in StoredRows}

\* The news_sentiments rows the analyses of the stored articles left.
RECURSIVE NewsOf(_)
NewsOf(tbl) ==
    IF tbl = <<>> THEN {}
    ELSE LET a == tbl[Len(tbl)]
             rest == NewsOf(SubSeq(tbl, 1, Len(tbl) - 1))
         IN  IF IsScored(a)
             THEN save_news_sentiment(rest,
                      SentimentRow(a.company_id, a.published_at, a.sentiment_score[1],
                                   Label(a.sentiment_score[1])))
             ELSE rest

AggInitAll ==
    /\ articles \in Tables(MaxArticles)
    /\ scores = {}
    /\ news_sentiments = NewsOf(articles)
    /\ companies = Companies
    /\ StoreInit /\ PipeInit /\ AggInit /\ SvcInit

SpecAgg == AggInitAll /\ [][AggNext]_vars

\* Requests to the API over a database in any state: some of the companies
\* registered, up to MaxApiArticles articles of registered companies stored.
ApiInit ==
    /\ companies \in SUBSET Companies
    /\ articles \in {t \in Tables(MaxApiArticles) :
                         \A i \in 1..Len(t) : t[i].company_id \in companies}
    /\ scores = {}
    /\ news_sentiments = NewsOf(articles)
    /\ StoreInit /\ PipeInit /\ AggInit /\ SvcInit

SpecApi == ApiInit /\ [][ApiNext]_vars

\* A batch run over a database that earlier runs filled: one article already
\* scored and NumPoolArticles not yet scored, with NumPoolCompanies companies
\* configured whose fetches bring nothing new, and no other writer on the database.
PoolCompanies == 1..NumPoolCompanies
PoolSentiments == {8}

PoolTable(v) ==
    [i \in 1..(NumPoolArticles + 1) |->
        ArticleRow(i, 1, 1, i, StorePub, IF i = 1 THEN <<v>> ELSE NULL)]

PoolInit ==
    /\ \E v \in SentimentValues \ PoolSentiments : articles = PoolTable(v)
    /\ scores = {}
    /\ news_sentiments = NewsOf(articles)
    /\ companies = PoolCompanies
    /\ StoreInit /\ AggInit /\ SvcInit
    /\ phase = "start"
    /\ task = [c \in PoolCompanies |-> IdleTask]
    /\ fetched = [c \in PoolCompanies |-> <<>>]
    /\ collected = {}
    /\ counters = [articles_fetched |-> 0, articles_added |-> 0]
    /\ atask = <<>>
    /\ analyzed = 0

PoolNext ==
    \/ SubmitFetches
    \/ \E c \in DOMAIN task : FetchStart(c)
    \/ \E c \in DOMAIN task : FetchReturn(c, <<>>)
    \/ \E c \in DOMAIN task : FetchDone(c)
    \/ \E c \in DOMAIN task : Collect(c)
    \/ AnalyzeSelect
    \/ \E i \in DOMAIN atask : AnalyzeStart(i)
    \/ \E i \in DOMAIN atask, v \in PoolSentiments : AnalyzeUpdate(i, v)
    \/ \E i \in DOMAIN atask : AnalyzeRaise(i)
    \/ \E i \in DOMAIN atask : AnalyzeCollect(i)
    \/ AnalyzeEnd
    \/ PipeCalculate
    \/ PipeSaveScore
    \/ PipeEnd

SpecPool == PoolInit /\ [][PoolNext]_vars

\* ------------------------------------------------------------ the claims

Quiescent == \A w \in StoreWorkers : wk[w].pc \in {"idle", "returned"}

\* C1: an add_article call whose source_url some stored row already holds
\* never reaches its commit, and when it returns it returns False and has left
\* the articles table (the number of rows, every field of every row) as it was.
C1_DuplicateIsNoOp ==
    [][\A w \in StoreWorkers :
          (wk[w].pc = "insert" /\ UniqueViolation(articles, wk[w].source_url))
             => /\ wk'[w].pc # "commit"
                /\ wk'[w].pc = "returned" => (~wk'[w].result /\ articles' = articles)]_vars

\* A call has returned False as a duplicate of the one row holding its source_url,
\* a row of another company that is still there.
C1_Witness ==
    \E w \in StoreWorkers :
        /\ wk[w].pc = "returned" /\ ~wk[w].result /\ wk[w].reason = "duplicate"
        /\ RowsWithUrl(articles, wk[w].source_url) = 1
        /\ \E i \in 1..Len(articles) :
              /\ articles[i].source_url = wk[w].source_url
              /\ articles[i].company_id # wk[w].company_id

\* C2 as stated: once the workers are back, a source_url that two or more calls
\* were made with has exactly one call that returned True and exactly one row.
C2_ExactlyOneTrue ==
    \A u \in Urls :
        (Quiescent /\ hist[u].calls >= 2)
            => (hist[u].trues = 1 /\ RowsWithUrl(articles, u) = 1)

\* C2 amended: per source_url at most one call returns True, the store holds
\* exactly as many rows as calls returned True, and once the workers are back a
\* source_url that was tried has its one True unless every call with it gave up
\* on "database is locked".
C2_AtMostOneTrue ==
    \A u \in Urls :
        /\ hist[u].trues <= 1
        /\ RowsWithUrl(articles, u) = hist[u].trues
        /\ (Quiescent /\ hist[u].calls >= 1)
              => (hist[u].trues = 1 \/ hist[u].locked = hist[u].calls)

\* Two workers were in add_article with one source_url at once: one returned
\* True, the other met the lock, retried and returned False.
C2_Witness ==
    \E w1, w2 \in StoreWorkers :
        /\ w1 # w2
        /\ wk[w1].source_url = wk[w2].source_url
        /\ wk[w1].pc = "returned" /\ wk[w1].result
        /\ wk[w2].pc = "returned" /\ ~wk[w2].result /\ wk[w2].attempt > 0
        /\ RowsWithUrl(articles, wk[w1].source_url) = 1

\* C3: with a blank source_url the dedup key is (ticker, title): a call that is
\* turned down as a duplicate has a stored blank-URL row of its own ticker and
\* title.
C3_BlankUrlKeyedByTitle ==
    \A w \in StoreWorkers :
        (wk[w].pc = "returned" /\ wk[w].source_url = BlankUrl
                               /\ wk[w].reason = "duplicate")
            => \E i \in 1..Len(articles) :
                  /\ articles[i].source_url = BlankUrl
                  /\ articles[i].company_id = wk[w].company_id
                  /\ articles[i].title = wk[w].title

\* C4: while a company's fetch is still queued or in progress, no article has
\* been inserted into the store.
C4_StoreAfterAllFetches ==
    (\E c \in Companies : task[c].st \in {"queued", "fetching"})
        => Len(articles) = 0

\* C5: a run in which a company's fetch task raised does not abort.
C5_FetchFailureIsolated ==
    (\E c \in Companies : task[c].st = "failed") => phase # "aborted"

Ended(r) == runInfo[r].done \/ runInfo[r].status \in {"TypeError", "ZeroDivisionError"}

\* The rows a run's ranking amounts to, as a reader would see them.
NewRows(ranking) ==
    {[row |-> Columns(ScoreRow(ranking[i], 0, 0)), copies |-> 1] :
        i \in 1..Len(ranking)}

\* C6: while a run that is alone writes its ranking for date D, the rows of D are
\* the rows there were when it began or the whole new ranking, and when it is
\* done they are the new ranking.
C6_AtomicReplace ==
    \A p \in Runners :
        LET me == runner[p] IN
        (me.pc \in {"saving", "done"} /\ me.run = nruns /\ runInfo[me.run].alone
                                       /\ me.ranking # <<>>)
            => /\ me.pc = "saving" =>
                    Visible(scores, me.date) \in {runInfo[me.run].rows, NewRows(me.ranking)}
               /\ me.pc = "done" => Visible(scores, me.date) = NewRows(me.ranking)

\* C7: once no run is writing, two rows of one date written by different runs
\* are not rows of companies that both runs ranked (the later run would have
\* replaced both).
C7_NoInterleaving ==
    (\A p \in Runners : ~Busy(p))
        => \A r1, r2 \in scores :
              (r1.date = r2.date /\ r1.run # r2.run)
                  => ~(/\ r1.company_id \in runInfo[r2.run].cos
                       /\ r2.company_id \in runInfo[r1.run].cos)

Consecutive(a, b) ==
    /\ b = a + 1 /\ b <= Len(runInfo)
    /\ Ended(a) /\ Ended(b)
    /\ runInfo[a].alone /\ runInfo[b].alone
    /\ runInfo[a].date = runInfo[b].date
    /\ runInfo[a].kind = runInfo[b].kind

\* C8 as stated: two runs of an entry point for one date, one after the other
\* over the same articles, leave the same rows for the date.
C8_Idempotent ==
    \A a \in 1..Len(runInfo) :
        Consecutive(a, a + 1) => runInfo[a].rows = runInfo[a + 1].rows

\* C8 amended: they leave the same rows when the entry point is the calculate
\* endpoint, or the batch step run both times at the same `now`.
C8_IdempotentAtSameNow ==
    \A a \in 1..Len(runInfo) :
        (Consecutive(a, a + 1)
           /\ (runInfo[a].kind = "batch" => runInfo[a].now = runInfo[a + 1].now))
            => runInfo[a].rows = runInfo[a + 1].rows

\* The batch step ran twice at one `now` and wrote a ranking both times.
C8_Witness ==
    \E a \in 1..Len(runInfo) :
        /\ Consecutive(a, a + 1)
        /\ runInfo[a].kind = "batch" /\ runInfo[a].now = runInfo[a + 1].now
        /\ runInfo[a].done /\ runInfo[a + 1].done
        /\ Cardinality(runInfo[a + 1].rows) = 2

\* The date's articles of a company that have a sentiment score.
ScoredOn(c, d) ==
    {i \in 1..Len(articles) :
        /\ articles[i].company_id = c
        /\ DateOf(articles[i].published_at.h) = d
        /\ articles[i].sentiment_score # NULL}

\* Sum of score (tenths) x decay (tenths), decay = max(0, 10 - hours since).
RECURSIVE WeightedSum(_, _)
WeightedSum(S, now) ==
    IF S = {} THEN 0
    ELSE LET i == CHOOSE x \in S : TRUE
             age == now - articles[i].published_at.h
             decay == IF 10 - age < 0 THEN 0 ELSE 10 - age
         IN  articles[i].sentiment_score[1] * decay + WeightedSum(S \ {i}, now)

RECURSIVE RawSum(_)
RawSum(S) ==
    IF S = {} THEN 0
    ELSE LET i == CHOOSE x \in S : TRUE
         IN  articles[i].sentiment_score[1] + RawSum(S \ {i})

IsLatestBatchDone(p) ==
    /\ runner[p].kind = "batch" /\ runner[p].pc = "done"
    /\ runner[p].run = nruns /\ runInfo[nruns].alone

\* C9: a scores row the batch step wrote has composite score = the mean of
\* sentiment_score x time_decay over the company's scored articles of the date
\* and article_count = their number; and a batch run that has completed has
\* left such a row for every company with a scored article on its date.
C9_CompositeIsDecayedMean ==
    /\ \A r \in scores :
          runInfo[r.run].kind = "batch" =>
              LET S == ScoredOn(r.company_id, r.date)
                  n == Cardinality(S)
              IN  /\ n > 0
                  /\ r.article_count = n
                  /\ r.score.n * (100 * n) = r.score.d * WeightedSum(S, runInfo[r.run].now)
    /\ \A p \in Runners :
          IsLatestBatchDone(p) =>
              \A c \in Companies :
                  ScoredOn(c, runner[p].date) # {} =>
                      \E r \in scores : /\ r.company_id = c /\ r.date = runner[p].date
                                        /\ r.run = runner[p].run

\* The example: scores 0.8 (0 h old) and -0.4 (5 h old) gave 0.30 and 2.
C9_Witness ==
    \E r \in scores :
        /\ runInfo[r.run].kind = "batch"
        /\ r.article_count = 2 /\ r.score = [n |-> 3, d |-> 10]
        /\ \E i, j \in ScoredOn(r.company_id, r.date) :
              /\ articles[i].sentiment_score = <<8>>
              /\ articles[i].published_at.h = runInfo[r.run].now
              /\ articles[j].sentiment_score = <<-4>>
              /\ articles[j].published_at.h = runInfo[r.run].now - 5

\* C10: a scores row the batch step wrote has avg_sentiment = the mean of the
\* raw sentiment scores of the company's scored articles of the date.
C10_AvgIsRawMean ==
    \A r \in scores :
        runInfo[r.run].kind = "batch" =>
            LET S == ScoredOn(r.company_id, r.date)
            IN  r.avg_sentiment.n * (10 * Cardinality(S)) = r.avg_sentiment.d * RawSum(S)

\* The scored articles of a date, whatever their company.
ScoredOnDate(d) == UNION {ScoredOn(c, d) : c \in Companies}

\* A batch run whose date holds only naive timestamps among its scored articles
\* and at least one scored article published more than 10 hours before its `now`.
HasZeroDecay(k) ==
    /\ runInfo[k].kind = "batch"
    /\ \A i \in ScoredOnDate(runInfo[k].date) : articles[i].published_at.tz = "naive"
    /\ \E i \in ScoredOnDate(runInfo[k].date) :
          runInfo[k].now - articles[i].published_at.h > 10

\* C11: a batch run over a date with a scored article more than 10 hours old
\* raises nothing, and once it is done every company with a scored article on
\* the date has its row, whose article_count counts the old articles too and
\* whose score is the decayed sum (the old ones adding 0) over that count.
C11_ZeroDecayCounted ==
    \A k \in 1..Len(runInfo) :
        HasZeroDecay(k) =>
            /\ runInfo[k].status = "ok"
            /\ (runInfo[k].done /\ k = nruns /\ runInfo[k].alone) =>
                  \A c \in Companies :
                      LET S == ScoredOn(c, runInfo[k].date) IN
                      S # {} =>
                          \E r \in scores :
                              /\ r.company_id = c /\ r.date = runInfo[k].date
                              /\ r.article_count = Cardinality(S)
                              /\ r.score.n * (100 * Cardinality(S))
                                    = r.score.d * WeightedSum(S, runInfo[k].now)

\* C12: every scores row, whichever entry point wrote it, is of a company with
\* at least one scored article on the row's date, and so is every entry of a
\* ranking being written.
C12_UnscoredCompanyExcluded ==
    /\ \A r \in scores : ScoredOn(r.company_id, r.date) # {}
    /\ \A p \in Runners : \A i \in 1..Len(runner[p].ranking) :
          ScoredOn(runner[p].ranking[i].company_id, runner[p].date) # {}

\* C13: a run for a date on which no article has a sentiment score raises
\* nothing, scores no company (companies_scored = 0) and writes no scores row.
C13_NothingScoredNothingSaved ==
    \A k \in 1..Len(runInfo) :
        ScoredOnDate(runInfo[k].date) = {} =>
            /\ runInfo[k].status \in {"ok", "empty"}
            /\ runInfo[k].cos = {}
            /\ \A r \in scores : r.run # k

\* C14: the ranking a run computed has one entry per company with a scored
\* article on the date and no other, entry i has rank i, and the scores do not
\* increase along it.
C14_DenseRanks ==
    \A p \in Runners :
        LET rk == runner[p].ranking
            N == Cardinality({c \in Companies : ScoredOn(c, runner[p].date) # {}})
        IN  runner[p].pc \in {"saving", "done"} =>
                /\ Len(rk) = N
                /\ \A i \in 1..Len(rk) : rk[i].rank = i
                /\ \A i, j \in 1..Len(rk) :
                      i < j => /\ rk[i].company_id # rk[j].company_id
                               /\ ~RLess(rk[i].score, rk[j].score)

HasRanking(p) == runner[p].pc \in {"saving", "done"}

\* The first article of a company on a date, in article id order.
FirstOn(c, d) ==
    LET S == {i \in 1..Len(articles) : articles[i].company_id = c /\ OnDate(articles[i], d)}
    IN  CHOOSE i \in S : \A j \in S : i <= j

\* C15 as stated: of two runs of one entry point for one date over the same
\* articles, a company tied with another in one run's ranking has the same rank
\* in the other run's ranking.
C15_TiedSameRankAnyRun ==
    \A p, q \in Runners :
        (p # q /\ HasRanking(p) /\ HasRanking(q)
               /\ runner[p].kind = runner[q].kind /\ runner[p].date = runner[q].date)
            => \A i, j \in 1..Len(runner[p].ranking) :
                  (i # j /\ runner[p].ranking[i].score = runner[p].ranking[j].score)
                      => \E k \in 1..Len(runner[q].ranking) :
                            /\ runner[q].ranking[k].company_id = runner[p].ranking[i].company_id
                            /\ runner[q].ranking[k].rank = runner[p].ranking[i].rank

\* C15 amended: companies tied in a run's ranking are ranked in an order the
\* stored data fixes: by company id in the batch step, by the article id of
\* each company's first article of the date in the calculate endpoint.
C15_TieOrderByStoredData ==
    \A p \in Runners :
        HasRanking(p) =>
            \A i, j \in 1..Len(runner[p].ranking) :
                LET a == runner[p].ranking[i]
                    b == runner[p].ranking[j]
                IN  (i < j /\ a.score = b.score) =>
                        /\ runner[p].kind = "batch" => a.company_id < b.company_id
                        /\ runner[p].kind = "api" =>
                              FirstOn(a.company_id, runner[p].date)
                                  < FirstOn(b.company_id, runner[p].date)

\* Two runs of the calculate endpoint over a date whose first article is
\* company 2's have both ranked two tied companies, company 2 first.
C15_Witness ==
    \E p, q \in Runners :
        /\ p # q /\ HasRanking(p) /\ HasRanking(q)
        /\ runner[p].kind = "api" /\ runner[q].kind = "api"
        /\ runner[p].date = runner[q].date
        /\ Len(runner[p].ranking) = 2
        /\ runner[p].ranking[1].score = runner[p].ranking[2].score
        /\ runner[p].ranking[1].company_id = 2
        /\ runner[q].ranking = runner[p].ranking

\* C16: the Analyze phase selects only articles whose sentiment score is null,
\* no step changes an article that has a sentiment score, and no article's
\* sentiment columns are written more than once in the run.
C16_ScoredOnce ==
    [][/\ \A i \in 1..Len(articles) : IsScored(articles[i]) => articles'[i] = articles[i]
       /\ (phase = "fetch" /\ phase' = "analyze") => DOMAIN atask' = Unscored(articles)
       /\ \A i \in DOMAIN atask' : atask'[i].writes <= 1]_vars

\* Every unscored article was selected and written once; the article that had a
\* score before the run still has it.
C16_Witness ==
    /\ phase = "aggregate"
    /\ DOMAIN atask = 2..(NumPoolArticles + 1)
    /\ \A i \in DOMAIN atask : atask[i].writes = 1 /\ IsScored(articles[i])
    /\ IsScored(articles[1]) /\ articles[1].sentiment_score[1] \notin PoolSentiments

Succeeded == {i \in DOMAIN atask : AnalysisFinished(i) /\ atask[i].result = 1}
Failed == {i \in DOMAIN atask : AnalysisFinished(i) /\ atask[i].result = 0}

AnalysisFailureLocal ==
    /\ \A i \in Failed : ~IsScored(articles[i])
    /\ \A i \in Succeeded : IsScored(articles[i])
    /\ phase \in {"aggregate", "done", "crashed"} =>
          /\ \A i \in DOMAIN atask : atask[i].st = "collected"
          /\ analyzed = Cardinality(Succeeded)
    /\ phase = "aborted" => \E c \in DOMAIN task : task[c].st = "failed"

\* C17: an article whose analysis failed (an exception, or "database is locked"
\* on every attempt) keeps its null score and is not counted, every article
\* whose analysis went through has its score and is counted, no analysis
\* failure aborts the run, and the Analyze phase is never stuck short of
\* aggregation.
C17_AnalysisFailureIsolated ==
    /\ AnalysisFailureLocal
    /\ phase = "analyze" => ENABLED Next

\* One article gave up after its last retry and has no score, another was
\* analysed, and the run is aggregating with analyzed_count 1.
C17_Witness ==
    /\ phase = "aggregate"
    /\ analyzed = 1
    /\ \E i \in Failed : atask[i].why = "locked" /\ ~IsScored(articles[i])
    /\ \E i \in Succeeded : IsScored(articles[i])

\* C18: add_article starts a further insert attempt only after an attempt
\* failed with "database is locked", and never a fourth one; it returns True
\* when an attempt's insert is committed and False when the last attempt
\* allowed found the database locked; an attempt rejected as a duplicate is
\* the call's last and the call returns False at once (a call that met no
\* contention and is rejected as a duplicate made exactly one attempt).
C18_BoundedRetry ==
    [][\A w \in StoreWorkers :
         LET locked == dblock # 0 /\ dblock # w
             duplicate == ~locked /\ UniqueViolation(articles, wk[w].source_url)
             attempting == wk[w].pc = "insert"
             returns == wk[w].pc # "returned" /\ wk'[w].pc = "returned"
         IN  /\ wk'[w].attempt <= max_retries - 1
             /\ Len(wk'[w].slept) = wk'[w].attempt
             /\ attempting /\ wk'[w].pc = "insert" /\ wk'[w] # wk[w]
                  => /\ locked
                     /\ wk'[w].attempt = wk[w].attempt + 1
                     /\ wk'[w].slept = Append(wk[w].slept, retry_delay_ms * wk'[w].attempt)
             /\ attempting /\ locked /\ wk[w].attempt = max_retries - 1 /\ wk'[w] # wk[w]
                  => returns /\ ~wk'[w].result
             /\ attempting /\ duplicate /\ wk'[w] # wk[w]
                  => returns /\ ~wk'[w].result /\ wk'[w].attempt = wk[w].attempt
             /\ returns /\ wk'[w].result
                  => /\ wk[w].pc = "commit"
                     /\ \E i \in 1..Len(articles') :
                           articles'[i].source_url = wk[w].source_url
             /\ returns /\ wk[w].pc = "commit" => wk'[w].result
             /\ returns => wk'[w].attempt = wk[w].attempt
    ]_vars

\* One call gave up after three locked attempts (having slept 100 and 200 ms),
\* one succeeded on its second attempt, and one was rejected as a duplicate on
\* its only attempt.
C18_Witness ==
    /\ \E w \in StoreWorkers :
          /\ wk[w].pc = "returned" /\ ~wk[w].result /\ wk[w].reason = "locked"
          /\ wk[w].slept = <<100, 200>>
    /\ \E w \in StoreWorkers :
          wk[w].pc = "returned" /\ wk[w].result /\ wk[w].slept = <<100>>

\* A call met no contention, was rejected as a duplicate and returned False
\* after one attempt.
C18_WitnessDuplicate ==
    \E w \in StoreWorkers :
       /\ wk[w].pc = "returned" /\ ~wk[w].result /\ wk[w].reason = "duplicate"
       /\ wk[w].attempt = 0

\* C19: at every moment of a pipeline run at most 3 fetch_company_articles
\* futures and at most 5 analyze_article futures are in progress.
C19_PoolSizes ==
    /\ Cardinality({c \in DOMAIN task : Running(c)}) <= 3
    /\ Cardinality({i \in DOMAIN atask : AnalysisRunning(i)}) <= 5

\* Five analyses are in progress while a sixth article waits in the queue.
C19_Witness ==
    /\ phase = "analyze"
    /\ Cardinality({i \in DOMAIN atask : AnalysisRunning(i)}) = 5
    /\ \E i \in DOMAIN atask : atask[i].st = "queued"

\* Three fetches are in progress while a fourth company waits in the queue.
C19_WitnessFetch ==
    /\ phase = "fetch"
    /\ Cardinality({c \in DOMAIN task : Running(c)}) = 3
    /\ \E c \in DOMAIN task : task[c].st = "queued"

\* C20: in a pipeline run the unscored articles are selected for analysis only
\* once every fetch_company_articles worker has finished (nothing is left to
\* store), and the aggregation of the batch starts only once every
\* analyze_article worker has finished.
C20_PhaseBarriers ==
    /\ (phase \in {"analyze", "aggregate", "done", "crashed"} \/ atask # <<>>)
          => \A c \in DOMAIN task : Finished(c) /\ fetched[c] = <<>>
    /\ (phase \in {"aggregate", "done", "crashed"} \/ runner[1].pc # "idle")
          => \A i \in DOMAIN atask : AnalysisFinished(i)
    /\ runner[1].pc # "idle" => phase \in {"aggregate", "done", "crashed"}

\* The batch is aggregating after an Analyze phase that handled an article a
\* fetch worker had stored.
C20_Witness ==
    /\ phase = "aggregate"
    /\ runner[1].pc # "idle"
    /\ atask # <<>>
    /\ \E c \in DOMAIN task : task[c].added_count > 0

SameKey(r1, r2) == r1.company_id = r2.company_id /\ r1.date = r2.date

\* C21: after any sequence of aggregation runs the scores table holds at most
\* one row per (company_id, date), and a save for a key that has a row leaves
\* the newly written row as the only row of the key.
C21_OneRowPerCompanyDate ==
    [][/\ \A r1, r2 \in scores' : SameKey(r1, r2) => r1 = r2
       /\ \A p \in Runners :
             (runner[p].pc = "saving" /\ runner'[p].idx = runner[p].idx + 1)
                 => LET new == ScoreRow(runner[p].ranking[runner[p].idx],
                                        runner[p].date, runner[p].run)
                    IN  /\ {r \in scores' : SameKey(r, new)} = {new}
                        /\ {r \in scores' : ~SameKey(r, new)}
                              = {r \in scores : ~SameKey(r, new)}
    ]_vars

\* The second run wrote a row for a company and date the first run, now done,
\* had written a row for.
C21_Witness ==
    /\ Len(runInfo) = 2
    /\ runInfo[1].done /\ runInfo[1].date = runInfo[2].date
    /\ \E r \in scores :
          /\ r.run = 2 /\ r.date = runInfo[1].date
          /\ r.company_id \in runInfo[1].cos

\* The scored articles a batch run of date d multiplies by a time-decay weight.
Weighted(d) == {i \in 1..Len(articles) : IsScored(articles[i]) /\ OnDate(articles[i], d)}

\* C22: in every batch run that computed its ranking, the time-decay weight
\* applied to each scored article of the date is at least 0 and at most 1.
C22_DecayInUnitInterval ==
    \A r \in 1..Len(runInfo) :
        (runInfo[r].kind = "batch" /\ runInfo[r].status = "ok")
            => \A i \in Weighted(runInfo[r].date) :
                  LET w == TimeDecay(runInfo[r].now, articles[i].published_at)
                  IN  ~RLess(w, RZero) /\ ~RLess(RInt(1), w)

\* C23: every call of analyze returns a score between -1 and 1 and a
\* confidence between 0 and 1, and for None or the empty string it returns
\* (0.0, 0.0) and the classifier was not invoked.
C23_AnalyzeRanges ==
    analyzer.pc = "returned"
        => /\ ~RLess(analyzer.score, RInt(-1)) /\ ~RLess(RInt(1), analyzer.score)
           /\ ~RLess(analyzer.confidence, RZero) /\ ~RLess(RInt(1), analyzer.confidence)
           /\ analyzer.text.kind \in {"none", "empty"}
                 => /\ analyzer.score = RZero /\ analyzer.confidence = RZero
                    /\ ~analyzer.classified

\* A call returned 1.0 for a text whose combined score is above 1.
C23_Witness ==
    /\ analyzer.pc = "returned"
    /\ analyzer.classified
    /\ RLess(RInt(1), CombinedScore(analyzer.label, analyzer.clf_score,
                                    KeywordScore(analyzer.text)))
    /\ analyzer.score = RInt(1)

\* A call with the empty string returned (0.0, 0.0).
C23_WitnessEmpty ==
    analyzer.pc = "returned" /\ analyzer.text.kind = "empty" /\ analyzer.score = RZero

\* C24: when the classifier is used, the score is +confidence for the label
\* positive, -confidence for negative and 0.0 for neutral.
C24_AdapterRule ==
    (analyzer.pc = "returned" /\ analyzer.classified)
        => analyzer.score =
              (IF analyzer.label = "positive" THEN analyzer.confidence
               ELSE IF analyzer.label = "negative" THEN RNeg(analyzer.confidence)
               ELSE RZero)

\* C25: when the providers yield no article for a tracked ticker,
\* get_articles returns a non-empty list of demo articles of that ticker.
C25_FallbackNonEmpty ==
    (fetcher.pc = "returned" /\ fetcher.yfinance = <<>> /\ fetcher.newsapi = <<>>)
        => /\ fetcher.result # <<>>
           /\ \A i \in 1..Len(fetcher.result) :
                 fetcher.result[i][1] = "demo" /\ fetcher.result[i][2] = fetcher.ticker

Malformed(req) ==
    \/ req.route \in {"ranking", "calculate"} /\ ~Strptime(req.params[1]).ok
    \/ req.route = "daily" /\ req.params[1] # NULL /\ ~Strptime(req.params[1][1]).ok
    \/ req.route = "history" /\ (req.params[2] < 1 \/ req.params[2] > 365)

\* C27: a request with a malformed date string (ranking, calculate, daily
\* sentiments) or with days outside 1..365 (sentiment history) is answered 400,
\* whatever the tables hold, and the articles and scores tables are as before.
C27_MalformedRejected ==
    [][(request'.pc = "responded" /\ Malformed(request'))
          => request'.status = 400 /\ UNCHANGED <<articles, scores>>]_vars

\* The waits start at `base` and each further wait is double the one before.
Doubling(slept, base) ==
    \A k \in 1..Len(slept) :
        slept[k] = (IF k = 1 THEN base ELSE 2 * slept[k - 1])

\* C28: in both retry loops the waits between attempts start at the base delay
\* (100 ms in add_article, 50 ms in analyze_article) and double from one retry
\* to the next, and there are at most 3 and 5 attempts.
C28_ExponentialBackoff ==
    /\ \A w \in StoreWorkers :
          Doubling(wk[w].slept, 100) /\ Len(wk[w].slept) <= 3 - 1
    /\ \A i \in DOMAIN atask :
          Doubling(atask[i].slept, 50) /\ Len(atask[i].slept) <= 5 - 1

\* The news_sentiments rows there were before the Analyze phase: those of the
\* articles that had a score and were not selected.
SentimentsBefore ==
    NewsOf(SelectSeq(articles, LAMBDA a : a.id \notin DOMAIN atask))

\* C29: when the Analyze phase is over, the number of news_sentiments rows it
\* added equals the number of articles it counted as analysed, and every
\* article it scored has a news_sentiments row with its score.
C29_OneSentimentRowPerAnalysed ==
    phase = "aggregate"
        => /\ Cardinality(news_sentiments \ SentimentsBefore) = analyzed
           /\ \A i \in DOMAIN atask :
                 atask[i].result = 1
                     => \E r \in news_sentiments :
                           /\ r.url_hash = <<articles[i].company_id, articles[i].published_at>>
                           /\ r.sentiment_score = articles[i].sentiment_score[1]

\* Two runs, one of each entry point, one after the other and alone, for one
\* date over the same articles, each of which wrote a ranking.
BothEntryPoints(a, b) ==
    /\ b = a + 1 /\ b <= Len(runInfo)
    /\ runInfo[a].done /\ runInfo[b].done
    /\ runInfo[a].alone /\ runInfo[b].alone
    /\ runInfo[a].date = runInfo[b].date
    /\ runInfo[a].kind # runInfo[b].kind
    /\ runInfo[a].rows # {} /\ runInfo[b].rows # {}

\* C30: the batch step and the calculate endpoint write the same rows (score,
\* article_count, avg_sentiment, rank per company) for the same date and the
\* same stored articles.
C30_EntryPointsAgree ==
    \A a \in 1..Len(runInfo) :
        BothEntryPoints(a, a + 1) => runInfo[a].rows = runInfo[a + 1].rows

=============================================================================
